---- MODULE Spec2Model ----
(***************************************************************************)
(* ClickityClick (src/src/components/ClickityClick.js): a React component  *)
(* holding this.state = {hasBeenClicked}, a click handler that calls       *)
(* setState with a completion callback, and render().  React itself is not *)
(* part of the repository; its update queue is modelled from what the      *)
(* lesson's README says about setState (merge, batching, callback after    *)
(* the update, automatic re-render).                                       *)
(***************************************************************************)
EXTENDS Integers, Sequences, FiniteSets, TLC

\* Number of click events delivered to the button in one run.
MaxClicks == 3

VARIABLES
    state,          \* this.state of the component
    updateQueue,    \* setState calls not yet processed by React
    callbackQueue,  \* callbacks of the processed batch, not yet invoked
    dom,            \* text of the <p> element currently on screen
    phase,          \* React's position: "idle", "render" or "callbacks"
    console,        \* what console.log has printed, in order
    requests,       \* the click events handled so far: which handler ran,
                    \* and the this.state.hasBeenClicked it found
    committed,      \* clicks whose update has been applied to this.state
    commits,        \* number of batches React has processed
    fired,          \* per click, how often its setState callback has run
    lastRead        \* what the latest call of render() outside a re-render
                    \* returned, and how many batches had been processed

vars == <<state, updateQueue, callbackQueue, dom, phase, console, requests,
          committed, commits, fired, lastRead>>

ClickIds == 1..MaxClicks

\* Number of click events handled so far; click i is the i-th of them.
clicks == Len(requests)

----------------------------------------------------------------------------
\* Text is a sequence of characters, so that concatenation is real.

IHave == <<"I", " ", "h", "a", "v", "e", " ">>

Not == <<"n", "o", "t">>

BeenClicked ==
    <<" ", "b", "e", "e", "n", " ", "c", "l", "i", "c", "k", "e", "d", "!">>

\* A JSX child: a piece of text, or null (which React renders as nothing).
TextChild(s) == [kind |-> "text", value |-> s]

NullChild == [kind |-> "null", value |-> <<>>]

\* constructor(): this.state = { hasBeenClicked: false }
initialStateClicked == [hasBeenClicked |-> TRUE]

initialState == [hasBeenClicked |-> FALSE]

\* render(): the children of <p>I have {hasBeenClicked ? null : 'not'} been clicked!</p>
render(s) ==
    << TextChild(IHave),
       IF s.hasBeenClicked THEN NullChild ELSE TextChild(Not),
       TextChild(BeenClicked) >>

\* The text a list of children puts on screen: text children in order,
\* null children contribute nothing.
RECURSIVE textContent(_)
textContent(children) ==
    IF children = <<>> THEN <<>>
    ELSE (IF Head(children).kind = "text" THEN Head(children).value ELSE <<>>)
         \o textContent(Tail(children))

\* What the component displays for a given this.state.
displayText(s) == textContent(render(s))

----------------------------------------------------------------------------
\* React's side of setState.

\* The object passed to setState is merged into the current state.
mergeState(prev, partial) ==
    [k \in DOMAIN prev |-> IF k \in DOMAIN partial THEN partial[k] ELSE prev[k]]

\* setState(partialState, callback): the request joins the pending updates.
enqueueSetStateFront(queue, update) == <<update>> \o queue

enqueueSetState(queue, update) == Append(queue, update)

\* The updates React processes together: the n oldest pending ones.
takeBatch(queue, n) == SubSeq(queue, 1, n)

restAfterBatch(queue, n) == SubSeq(queue, n + 1, Len(queue))

\* Apply a batch of updates, in order, to a state.
RECURSIVE processUpdateQueue(_, _)
processUpdateQueue(prev, batch) ==
    IF batch = <<>> THEN prev
    ELSE processUpdateQueue(mergeState(prev, Head(batch).partialState), Tail(batch))

\* The clicks of a batch, and those of them that passed a callback, in order.
BatchIds(batch) == {batch[i].id : i \in 1..Len(batch)}

RECURSIVE batchCallbacks(_)
batchCallbacks(batch) ==
    IF batch = <<>> THEN <<>>
    ELSE (IF Head(batch).callback THEN <<Head(batch).id>> ELSE <<>>)
         \o batchCallbacks(Tail(batch))

----------------------------------------------------------------------------
\* render() has not been called from outside a re-render yet.
NoRead == [text |-> <<>>, commits |-> -1]

Handlers == {"handleClick", "handleClickNoCallback", "handleClickLogAfter"}

TypeOK ==
    /\ state \in [hasBeenClicked : BOOLEAN]
    /\ phase \in {"idle", "render", "callbacks"}
    /\ requests \in Seq([handler : Handlers, seen : BOOLEAN])
    /\ clicks <= MaxClicks
    /\ committed \subseteq 1..clicks
    /\ commits \in 0..MaxClicks
    /\ fired \in [ClickIds -> Nat]
    /\ \A i \in 1..Len(updateQueue) : updateQueue[i].id \in 1..clicks
    /\ \A i \in 1..Len(callbackQueue) : callbackQueue[i] \in committed
    /\ lastRead.commits \in -1..MaxClicks

\* ReactDOM.render(<ClickityClick />, root): the component is constructed
\* and its first render is on screen.
Init ==
    /\ state = initialState
    /\ updateQueue = <<>>
    /\ callbackQueue = <<>>
    /\ dom = displayText(initialState)
    /\ phase = "idle"
    /\ console = <<>>
    /\ requests = <<>>
    /\ committed = {}
    /\ commits = 0
    /\ fired = [i \in ClickIds |-> 0]
    /\ lastRead = NoRead

----------------------------------------------------------------------------
\* The click handlers.  Every click gets the next click number as its id.

\* A setState request as it sits in the queue.
Update(id, partial, hasCallback) ==
    [id |-> id, partialState |-> partial, callback |-> hasCallback]

\* A line printed by console.log(this.state.hasBeenClicked).
LogLine(id, at) == [id |-> id, at |-> at, value |-> state.hasBeenClicked]

\* The button delivers a click to handler h.
Click(h) ==
    /\ clicks < MaxClicks
    /\ requests' = Append(requests, [handler |-> h, seen |-> state.hasBeenClicked])

\* Variants of handleClick that a slip in the component would produce.

\* console.log(...) called on the spot instead of being wrapped in () => ...
handleClickEagerLog ==
    /\ Click("handleClick")
    /\ updateQueue' = enqueueSetState(updateQueue,
           Update(clicks + 1, [hasBeenClicked |-> TRUE], FALSE))
    /\ console' = Append(console, LogLine(clicks + 1, "callback"))
    /\ fired' = [fired EXCEPT ![clicks + 1] = @ + 1]
    /\ UNCHANGED <<lastRead, state, callbackQueue, dom, phase, committed, commits>>

\* this.state.hasBeenClicked = true written directly, before the setState call
handleClickDirect ==
    /\ Click("handleClick")
    /\ state' = [state EXCEPT !.hasBeenClicked = TRUE]
    /\ updateQueue' = enqueueSetState(updateQueue,
           Update(clicks + 1, [hasBeenClicked |-> TRUE], TRUE))
    /\ UNCHANGED <<lastRead, callbackQueue, dom, phase, console, committed, commits, fired>>

\* setState called twice in the handler, each time with the callback
handleClickTwice ==
    /\ Click("handleClick")
    /\ updateQueue' = enqueueSetState(
           enqueueSetState(updateQueue,
               Update(clicks + 1, [hasBeenClicked |-> TRUE], TRUE)),
           Update(clicks + 1, [hasBeenClicked |-> TRUE], TRUE))
    /\ UNCHANGED <<lastRead, state, callbackQueue, dom, phase, console, committed,
                   commits, fired>>

\* hasBeenClicked: !this.state.hasBeenClicked
handleClickToggle ==
    /\ Click("handleClick")
    /\ updateQueue' = enqueueSetState(updateQueue,
           Update(clicks + 1, [hasBeenClicked |-> ~state.hasBeenClicked], TRUE))
    /\ UNCHANGED <<lastRead, state, callbackQueue, dom, phase, console, committed,
                   commits, fired>>

\* if (this.state.hasBeenClicked) return; in front of the setState call
handleClickOnce ==
    /\ Click("handleClick")
    /\ updateQueue' =
           IF state.hasBeenClicked THEN updateQueue
           ELSE enqueueSetState(updateQueue,
                    Update(clicks + 1, [hasBeenClicked |-> TRUE], TRUE))
    /\ UNCHANGED <<lastRead, state, callbackQueue, dom, phase, console, committed,
                   commits, fired>>

\* the handler body left empty: setState never called
handleClickEmpty ==
    /\ Click("handleClick")
    /\ UNCHANGED <<lastRead, state, updateQueue, callbackQueue, dom, phase, console,
                   committed, commits, fired>>

\* handleClick = () => { this.setState({hasBeenClicked: true},
\*                                     () => console.log(this.state.hasBeenClicked)) }
handleClick ==
    /\ Click("handleClick")
    /\ updateQueue' = enqueueSetState(updateQueue,
           Update(clicks + 1, [hasBeenClicked |-> TRUE], TRUE))
    /\ UNCHANGED <<lastRead, state, callbackQueue, dom, phase, console, committed,
                   commits, fired>>

\* The lesson's first version of the handler: setState without a callback.
handleClickNoCallback ==
    /\ Click("handleClickNoCallback")
    /\ updateQueue' = enqueueSetState(updateQueue,
           Update(clicks + 1, [hasBeenClicked |-> TRUE], FALSE))
    /\ UNCHANGED <<lastRead, state, callbackQueue, dom, phase, console, committed,
                   commits, fired>>

\* The lesson's second version: setState without a callback, then
\* console.log(this.state.hasBeenClicked) in the same turn.
handleClickLogAfter ==
    /\ Click("handleClickLogAfter")
    /\ updateQueue' = enqueueSetState(updateQueue,
           Update(clicks + 1, [hasBeenClicked |-> TRUE], FALSE))
    /\ console' = Append(console, LogLine(clicks + 1, "sync"))
    /\ UNCHANGED <<lastRead, state, callbackQueue, dom, phase, committed, commits, fired>>

----------------------------------------------------------------------------
\* render() called on the component at any moment.

\* render() that writes this.state.hasBeenClicked = true while deriving the text
callRenderWriting ==
    /\ lastRead' = [text |-> displayText(state), commits |-> commits]
    /\ state' = [state EXCEPT !.hasBeenClicked = TRUE]
    /\ UNCHANGED <<updateQueue, callbackQueue, dom, phase, console, requests,
                   committed, commits, fired>>

\* render() reads this.state.hasBeenClicked and returns the element; it
\* assigns nothing and calls neither setState nor console.log.
callRender ==
    /\ lastRead' = [text |-> displayText(state), commits |-> commits]
    /\ UNCHANGED <<state, updateQueue, callbackQueue, dom, phase, console,
                   requests, committed, commits, fired>>

----------------------------------------------------------------------------
\* React's steps.

\* React processes a batch of pending updates: the partial states are merged
\* into this.state, and the batch's callbacks wait for the re-render.
Commit ==
    /\ phase = "idle"
    /\ \E n \in 1..Len(updateQueue) :
         LET batch == takeBatch(updateQueue, n) IN
           /\ state' = processUpdateQueue(state, batch)
           /\ committed' = committed \cup BatchIds(batch)
           /\ callbackQueue' = batchCallbacks(batch)
           /\ updateQueue' = restAfterBatch(updateQueue, n)
    /\ commits' = commits + 1
    /\ phase' = "render"
    /\ UNCHANGED <<lastRead, dom, console, requests, fired>>

\* The component re-renders: render() is called and the screen updated.
Render ==
    /\ phase = "render"
    /\ dom' = displayText(state)
    /\ phase' = IF callbackQueue = <<>> THEN "idle" ELSE "callbacks"
    /\ UNCHANGED <<lastRead, state, updateQueue, callbackQueue, console, requests,
                   committed, commits, fired>>

\* React invokes the next callback of the batch:
\* () => console.log(this.state.hasBeenClicked)
RunCallback ==
    /\ phase = "callbacks"
    /\ callbackQueue # <<>>
    /\ console' = Append(console, LogLine(Head(callbackQueue), "callback"))
    /\ fired' = [fired EXCEPT ![Head(callbackQueue)] = @ + 1]
    /\ callbackQueue' = Tail(callbackQueue)
    /\ phase' = IF Tail(callbackQueue) = <<>> THEN "idle" ELSE "callbacks"
    /\ UNCHANGED <<lastRead, state, updateQueue, dom, requests, committed, commits>>

Next ==
    \/ handleClick
    \/ handleClickNoCallback
    \/ handleClickLogAfter
    \/ callRender
    \/ Commit
    \/ Render
    \/ RunCallback

Spec == Init /\ [][Next]_vars

\* React processes every queued update, re-renders and calls back.
FairSpec ==
    /\ Spec
    /\ WF_vars(Commit)
    /\ WF_vars(Render)
    /\ WF_vars(RunCallback)

----------------------------------------------------------------------------
\* The two texts the specification names, character by character.

NotClickedText ==
    <<"I", " ", "h", "a", "v", "e", " ", "n", "o", "t", " ", "b", "e", "e",
      "n", " ", "c", "l", "i", "c", "k", "e", "d", "!">>

ClickedText ==
    <<"I", " ", "h", "a", "v", "e", " ", "b", "e", "e", "n", " ", "c", "l",
      "i", "c", "k", "e", "d", "!">>

\* Clicks whose handler passed a completion callback to setState.
WithCallback == {i \in 1..clicks : requests[i].handler = "handleClick"}

\* Clicks made when this.state.hasBeenClicked was already true.
Further == {i \in 1..clicks : requests[i].seen}

\* Nothing queued, nothing to redraw, no callback waiting.
Quiescent == updateQueue = <<>> /\ callbackQueue = <<>> /\ phase = "idle"

\* Console lines printed from inside a setState callback / in the handler.
CallbackLines == {i \in 1..Len(console) : console[i].at = "callback"}

SyncLines == {i \in 1..Len(console) : console[i].at = "sync"}

\* C1: before any click has been handled, hasBeenClicked is false and both
\* the text render() derives and the text on screen are exactly
\* "I have not been clicked!".
C1_InitialCondition ==
    clicks = 0 =>
        /\ state.hasBeenClicked = FALSE
        /\ displayText(state) = NotClickedText
        /\ dom = NotClickedText

C1_Witness ==
    /\ clicks = 0
    /\ updateQueue = <<>>
    /\ dom = NotClickedText

\* C2: every line printed from inside a setState callback reads true, and
\* the click it belongs to has been committed by then.
C2_CallbackSeesCommitted ==
    \A i \in CallbackLines :
        /\ console[i].value = TRUE
        /\ console[i].id \in committed

C2_Witness ==
    /\ Cardinality(CallbackLines) >= 2
    /\ commits >= 2

\* C3: on a fresh widget, after handlers have returned and before React has
\* processed any update, hasBeenClicked still reads false, in this.state and
\* in what a handler printed right after its setState call.
C3_UpdateIsQueued ==
    (clicks > 0 /\ commits = 0) =>
        /\ state.hasBeenClicked = FALSE
        /\ Len(updateQueue) = clicks
        /\ \A i \in SyncLines : console[i].value = FALSE

C3_Witness ==
    /\ clicks > 0
    /\ commits = 0
    /\ SyncLines # {}
    /\ \E i \in 1..clicks : requests[i].handler = "handleClick"

\* C4: a callback never runs twice; it runs only for a committed click that
\* passed one; and once the callbacks of a commit have been worked off,
\* every committed click that passed a callback has had it run exactly once.
C4_CallbackExactlyOnce ==
    /\ \A i \in ClickIds : fired[i] <= 1
    /\ \A i \in ClickIds : fired[i] = 1 => i \in committed \cap WithCallback
    /\ \A i \in committed \cap WithCallback :
           fired[i] = 1 \/ \E k \in 1..Len(callbackQueue) : callbackQueue[k] = i
    /\ phase = "idle" => \A i \in committed \cap WithCallback : fired[i] = 1

\* Two clicks coalesced into one commit, each callback run once.
C4_Witness ==
    /\ commits = 1
    /\ phase = "idle"
    /\ {1, 2} \subseteq committed \cap WithCallback
    /\ fired[1] = 1
    /\ fired[2] = 1

\* C5: no step takes hasBeenClicked from true back to false.
C5_Monotonic == [][state.hasBeenClicked => state'.hasBeenClicked]_vars

C5_Witness ==
    /\ state.hasBeenClicked
    /\ commits >= 2
    /\ Further # {}
    /\ Quiescent

\* C6: one click on a fresh widget, committed and re-rendered, leaves
\* hasBeenClicked true and exactly "I have been clicked!" as the text
\* derived by render() and shown on screen.
C6_SingleTransition ==
    (clicks = 1 /\ committed = {1} /\ phase # "render") =>
        /\ state.hasBeenClicked = TRUE
        /\ displayText(state) = ClickedText
        /\ dom = ClickedText

\* C7: once hasBeenClicked is true and on screen, no step changes
\* hasBeenClicked or the text on screen; and the callback of every further
\* click that passed one has run once React has worked everything off.
C7_Irreversible ==
    /\ [][(state.hasBeenClicked /\ dom = displayText(state)) =>
              (state'.hasBeenClicked /\ dom' = dom)]_vars
    /\ [](Quiescent => \A i \in Further \cap WithCallback : fired[i] = 1)

C7_Witness ==
    /\ Quiescent
    /\ Cardinality(Further \cap WithCallback) >= 2
    /\ \A i \in Further \cap WithCallback : fired[i] = 1
    /\ state.hasBeenClicked
    /\ dom = displayText(state)

\* C8: of two clicks, the later one is never committed while the earlier
\* one is still pending, and a callback never runs before the callback or
\* the commit of an earlier click.
C8_OrderPreserved ==
    \A i, j \in 1..clicks :
        i < j =>
            /\ j \in committed => i \in committed
            /\ (fired[j] >= 1 /\ i \in WithCallback) => fired[i] >= 1

\* The earlier click committed and called back, the later one still pending.
C8_Witness ==
    /\ clicks >= 2
    /\ 1 \in committed
    /\ fired[1] = 1
    /\ 2 \notin committed
    /\ {1, 2} \subseteq WithCallback

\* C9: under a fair host every click is eventually committed and, if it
\* passed a callback, called back; and after any click the widget reaches
\* a quiescent state with hasBeenClicked true.
C9_EventuallyApplied ==
    /\ \A i \in ClickIds :
           (clicks >= i) ~>
               (i \in committed /\ (i \in WithCallback => fired[i] = 1))
    /\ (clicks >= 1) ~> (Quiescent /\ state.hasBeenClicked)

C9_Witness ==
    /\ clicks = MaxClicks
    /\ Quiescent
    /\ state.hasBeenClicked
    /\ committed = 1..clicks
    /\ WithCallback # {}
    /\ \A i \in WithCallback : fired[i] = 1

\* C10: every change of this.state leaves a redraw pending, and whenever no
\* redraw is pending the screen shows the text render() derives from the
\* current state: the "not" text exactly when hasBeenClicked is false.
C10_RenderingContract ==
    /\ [][state' # state => phase' = "render"]_vars
    /\ [](phase # "render" =>
              /\ dom = displayText(state)
              /\ (dom = NotClickedText) <=> ~state.hasBeenClicked)

C10_Witness ==
    /\ phase # "render"
    /\ commits >= 1
    /\ state.hasBeenClicked
    /\ dom = displayText(state)
    /\ dom # NotClickedText

\* C11: a call of render() changes nothing of the component or of React's
\* queues (hasBeenClicked and the pending updates included), and two calls
\* with no commit between them return the same text.
C11_RenderIsPureRead ==
    /\ [][lastRead' # lastRead =>
              UNCHANGED <<state, updateQueue, callbackQueue, dom, phase,
                          console, requests, committed, commits, fired>>]_vars
    /\ [][(lastRead # NoRead /\ lastRead'.commits = lastRead.commits) =>
              lastRead'.text = lastRead.text]_vars

\* render() called after a commit, with updates still pending.
C11_Witness ==
    /\ lastRead # NoRead
    /\ lastRead.commits = commits
    /\ commits >= 1
    /\ updateQueue # <<>>
    /\ lastRead.text = displayText(state)
    /\ state.hasBeenClicked

\* C12: hasBeenClicked changes only in React's first commit, and there from
\* false to true: it is false before that commit and true ever after, so
\* later commits, handlers, callbacks and renders leave the value alone.
C12_MutatedOnce ==
    /\ [][state' # state =>
              /\ commits = 0
              /\ commits' = 1
              /\ state.hasBeenClicked = FALSE
              /\ state'.hasBeenClicked = TRUE]_vars
    /\ [](state.hasBeenClicked <=> commits >= 1)

\* A second and a third commit have gone by.
C12_Witness ==
    /\ commits >= 3
    /\ state.hasBeenClicked
    /\ committed = 1..clicks

====
